---- MODULE Spec2Model ----
(***************************************************************************)
(* Briefly front end: the authentication session (App.js, AuthProvider)    *)
(* and the summaries view-controller (SummariesList, Dashboard,            *)
(* SelectedSummary), with the gateway calls of RequestService.js as        *)
(* requests in flight.                                                     *)
(*                                                                         *)
(* Two specifications share the variables:                                 *)
(*   SessionSpec  login / register / logout / verifyToken / restart        *)
(*   Spec         Dashboard + SummariesList + SelectedSummary under an     *)
(*                authenticated session                                    *)
(*   StartupSpec  one life of the page, with fair scheduling               *)
(*   CreateSpec   Dashboard + NewSummaryDialog: creating a summary         *)
(*   DeleteSpec   SummariesList from its mount on: load, switch, delete    *)
(***************************************************************************)
EXTENDS Integers, Sequences, FiniteSets, TLC

VARIABLES
  \* ---- AuthProvider (App.js) ----
  isAuthenticated,   \* useState(false)
  userData,          \* useState(null)
  authSummaries,     \* useState([])
  authLoading,       \* useState(true)
  authError,         \* useState(null)
  lsToken,           \* localStorage 'auth_token'
  lsUser,            \* localStorage 'user_data'
  nowMs,             \* Date.now()
  pcVerify,          \* position of verifyToken: "init", "prefetch", "done"
  prefetchInFlight,  \* getUserSummaries calls of verifyToken not yet answered
  authReq,           \* the AuthForms call in flight: "none", "login", "register"
  strictMode,        \* React.StrictMode development build: effects run twice on mount
  sessEvent,         \* history: the last session handler that ran and its outcome
  loginRecord,       \* history: what the last successful login persisted
  route,             \* BrowserRouter location: "/login" or "/dashboard"
  \* ---- Dashboard (Dashboard.js) ----
  dashLoading,       \* useState(true)
  selectedSummary,   \* useState(null)
  \* ---- SummariesList ----
  summaries,         \* useState([])
  sharedSummaries,   \* useState([])
  searchQuery,       \* useState('')
  loading,           \* useState(true)
  error,             \* useState(null)
  deleting,          \* useState(false)
  currentView,       \* useState('my-summaries')
  sharingSummary,    \* useState(null)
  recipient,         \* useState('')
  sharing,           \* useState(false)
  errorMessage,      \* useState("")
  deleteDialogOpen,  \* useState(false)
  summaryToDelete,   \* useState(null); 0 stands for null
  activeTab,         \* useState('all')
  \* ---- SelectedSummary (SelectedSummary.js) ----
  isRegenerating,    \* useState(false)
  feedback,          \* useState('')
  regenerating,      \* useState(false)
  \* ---- gateway ----
  requests,          \* RequestService calls awaiting their response
  nextSeq,           \* issue number of the next call
  lastEvent,         \* history: the last view handler that ran and its outcome
  applied,           \* history: per list kind, the newest-issued fetch whose list was stored
  \* ---- Dashboard / NewSummaryDialog ----
  openNewDialog,     \* Dashboard: useState(false)
  summaryType,       \* useState('')
  inputMethod,       \* useState('')
  content,           \* useState('')
  file,              \* useState(null); TRUE stands for a chosen file
  dialogLoading      \* the dialog's loading: useState(false)

svars == <<isAuthenticated, userData, authSummaries, authLoading, authError,
           lsToken, lsUser, nowMs, pcVerify, prefetchInFlight, authReq,
           strictMode, sessEvent, loginRecord, route>>

dvars == <<isRegenerating, feedback, regenerating>>

lvars == <<dashLoading, selectedSummary, summaries, sharedSummaries, searchQuery,
           loading, error, deleting, currentView, sharingSummary, recipient,
           sharing, errorMessage, deleteDialogOpen, summaryToDelete, activeTab,
           dvars, requests, nextSeq, lastEvent, applied>>

nvars == <<openNewDialog, summaryType, inputMethod, content, file, dialogLoading>>

vars == <<svars, lvars, nvars>>

----------------------------------------------------------------------------
\* Bounds
MaxTicks == 3      \* clock steps (half seconds) modelled
MaxExp == 1        \* token expiry timestamps 0..MaxExp (seconds)
MaxReq == 4        \* gateway calls issued in one run of the view

\* Program constants
MsPerSec == 1000   \* decodedToken.exp * 1000

----------------------------------------------------------------------------
\* Values.  JavaScript null / undefined / object are tagged records so that
\* every value of one variable has one shape.
NullUser == [kind |-> "null", id |-> 0]
UndefUser == [kind |-> "undefined", id |-> 0]
UserIds == {1, 2}
UserObj(i) == [kind |-> "obj", id |-> i]
UserValues == {NullUser, UndefUser} \cup {UserObj(i) : i \in UserIds}

NoToken == [kind |-> "missing", exp |-> 0]
JunkToken == [kind |-> "junk", exp |-> 0]
Jwt(e) == [kind |-> "jwt", exp |-> e]
TokenValues == {NoToken, JunkToken} \cup {Jwt(e) : e \in 0..MaxExp}

NoItem == [json |-> "missing", id |-> 0]
StoredValues == {NoItem, [json |-> "null", id |-> 0], [json |-> "undefined", id |-> 0]}
                  \cup {[json |-> "object", id |-> i] : i \in UserIds}

NoError == "null"

\* JSON.stringify(user) as stored by localStorage.setItem: an object is
\* serialised, null becomes the text null, undefined becomes the text undefined.
JSONStringify(u) ==
  IF u.kind = "obj" THEN [json |-> "object", id |-> u.id]
  ELSE IF u.kind = "null" THEN [json |-> "null", id |-> 0]
  ELSE [json |-> "undefined", id |-> 0]

\* JSON.parse(text) either throws or returns a value.
JSONParseThrows(s) == s.json \notin {"object", "null"}

JSONParseLosesId(s) == IF s.json = "object" THEN UserObj(1) ELSE NullUser

JSONParse(s) == IF s.json = "object" THEN UserObj(s.id) ELSE NullUser

\* jwtDecode(token) throws on a token that is not a JWT.
JwtDecodeThrows(t) == t.kind # "jwt"

\* decodedToken.exp * 1000 < Date.now()
TokenExpired(t, now) == t.exp * MsPerSec < now

----------------------------------------------------------------------------
\* Summaries as the API returns them.
\* Text is a sequence of characters.
Summary(i, t, ty, o) == [id |-> i, title |-> t, type |-> ty, outputData |-> o]
S1 == Summary(1, <<"A">>, "code", <<"x">>)
S2 == Summary(2, <<"B">>, "Research", <<"a", "y">>)
S3 == Summary(3, <<"C">>, "documentation", <<"z">>)
NoSummary == Summary(0, <<>>, "none", <<>>)
SummaryIds == {1, 2, 3}
ById(i) == CASE i = 1 -> S1 [] i = 2 -> S2 [] i = 3 -> S3 [] OTHER -> NoSummary
\* The item as the API returns it after a regeneration.
Regenerated(i) == [ById(i) EXCEPT !.outputData = <<"n">>]

Event(op, tok, usr, at, out) == [op |-> op, tok |-> tok, usr |-> usr, at |-> at, out |-> out]
NoEvent == Event("none", NoToken, NoItem, 0, "none")
NoLogin == [done |-> FALSE, user |-> NullUser, tok |-> NoToken]

----------------------------------------------------------------------------
\* AuthProvider

Paths == {"/", "/login", "/dashboard"}

\* <Route path="/" element={<Navigate to="/dashboard" replace />} /> (App.js 262)
RouteFor(path) == IF path = "/" THEN "/dashboard" ELSE path

\* a ProtectedRoute without its redirect effect
ProtectedRouteStays(rt, auth, ld) == rt

\* ProtectedRoute's effect (App.js 215-219): it runs when the route is
\* entered and when isAuthenticated or loading changed.
ProtectedRouteEffect(rt, auth, ld) ==
  IF rt = "/dashboard" /\ ~auth /\ ~ld THEN "/login" ELSE rt

\* What ProtectedRoute returns (App.js 221-240).
ProtectedRouteRenders(auth, ld) ==
  IF ld THEN "spinner" ELSE IF auth THEN "children" ELSE "null"

DashboardRendered ==
  route = "/dashboard" /\ ProtectedRouteRenders(isAuthenticated, authLoading) = "children"

\* <Route path="/login" element={<AuthForms />} /> (App.js 254)
AuthFormsRendered == route = "/login"

\* The location after a handler that left it at rt, the effects of the
\* render that follows included.
Routed(rt) == route' = ProtectedRouteEffect(rt, isAuthenticated', authLoading')

\* logout() that forgets localStorage.removeItem('user_data')
LogoutEffectKeepsProfile ==
  /\ lsToken' = NoToken
  /\ lsUser' = lsUser
  /\ isAuthenticated' = FALSE
  /\ userData' = NullUser
  /\ authSummaries' = <<>>
  /\ authError' = NoError

\* The state writes of logout().
LogoutEffect ==
  /\ lsToken' = NoToken
  /\ lsUser' = NoItem
  /\ isAuthenticated' = FALSE
  /\ userData' = NullUser
  /\ authSummaries' = <<>>
  /\ authError' = NoError

\* logout(), called from the Navbar of the dashboard.
Logout ==
  /\ UNCHANGED <<lvars, nvars>>
  /\ pcVerify # "init"
  /\ DashboardRendered
  /\ LogoutEffect
  /\ sessEvent' = Event("logout", lsToken, lsUser, nowMs, "ok")
  /\ loginRecord' = NoLogin
  /\ UNCHANGED <<authLoading, nowMs, pcVerify, prefetchInFlight, authReq, strictMode>>
  /\ Routed(route)

\* The guard of verifyToken's throws before it authenticates.
VerifyFails(tok, usr, now) ==
  \/ tok.kind = "missing"
  \/ usr.json = "missing"
  \/ JwtDecodeThrows(tok)
  \/ TokenExpired(tok, now)
  \/ JSONParseThrows(usr)

\* verifyToken() up to its first await; the mount effect runs it (twice in a
\* development build under React.StrictMode, with the same outcome).
VerifyToken ==
  /\ UNCHANGED <<lvars, nvars>>
  /\ pcVerify = "init"
  /\ sessEvent' = Event("verify", lsToken, lsUser, nowMs,
                        IF VerifyFails(lsToken, lsUser, nowMs) THEN "failed" ELSE "restored")
  /\ IF VerifyFails(lsToken, lsUser, nowMs)
       THEN /\ LogoutEffect
            /\ loginRecord' = NoLogin
            /\ authLoading' = FALSE
            /\ pcVerify' = "done"
            /\ UNCHANGED prefetchInFlight
       ELSE /\ userData' = JSONParse(lsUser)
            /\ isAuthenticated' = TRUE
            /\ UNCHANGED <<lsToken, lsUser, authError, loginRecord>>
            /\ IF JSONParse(lsUser).kind # "obj"
                 THEN \* parsedUserData.id throws inside the inner try
                      /\ authSummaries' = <<>>
                      /\ authLoading' = FALSE
                      /\ pcVerify' = "done"
                      /\ UNCHANGED prefetchInFlight
                 ELSE /\ pcVerify' = "prefetch"
                      /\ prefetchInFlight' = IF strictMode THEN 2 ELSE 1
                      /\ UNCHANGED <<authSummaries, authLoading>>
  /\ UNCHANGED <<nowMs, authReq, strictMode>>
  /\ Routed(route)

PrefetchOutcomes == {"ok", "okNoResult", "notOK", "reject"}
PrefetchPayloads == {<<>>, <<S1>>}

\* setLoading(false) right after the await instead of in finally: a call
\* that rejects skips it
LoadingAfterPrefetchOnResponse(out, old) == IF out = "reject" THEN old ELSE FALSE

\* finally { setLoading(false) } (159-161)
LoadingAfterPrefetch(out, old) == FALSE

\* verifyToken() after await getUserSummaries(parsedUserData.id).
PrefetchResp(out, payload) ==
  /\ UNCHANGED <<lvars, nvars>>
  /\ prefetchInFlight > 0
  /\ prefetchInFlight' = prefetchInFlight - 1
  /\ pcVerify' = IF prefetchInFlight = 1 /\ pcVerify = "prefetch" THEN "done" ELSE pcVerify
  /\ authSummaries' = CASE out = "ok" -> payload
                        [] out = "okNoResult" -> <<>>
                        [] out = "notOK" -> authSummaries
                        [] OTHER -> <<>>
  /\ authLoading' = LoadingAfterPrefetch(out, authLoading)
  /\ sessEvent' = Event("prefetch", lsToken, lsUser, nowMs, out)
  /\ UNCHANGED <<isAuthenticated, userData, authError, lsToken, lsUser, nowMs,
                 authReq, strictMode, loginRecord>>
  /\ Routed(route)

\* login() up to await verifyUser(...).
LoginStart ==
  /\ UNCHANGED <<lvars, nvars>>
  /\ pcVerify # "init"
  /\ AuthFormsRendered
  /\ authReq = "none"
  /\ authReq' = "login"
  /\ authLoading' = TRUE
  /\ authError' = NoError
  /\ sessEvent' = Event("loginStart", lsToken, lsUser, nowMs, "sent")
  /\ UNCHANGED <<isAuthenticated, userData, authSummaries, lsToken, lsUser, nowMs,
                 pcVerify, prefetchInFlight, strictMode, loginRecord>>
  /\ Routed(route)

LoginFailures == {"reject", "rejectMsg", "noResult", "noToken"}

\* error.message alone: no text when the thrown value carries no message
LoginErrorTextNoFallback(out) ==
  CASE out = "rejectMsg" -> "server message"
    [] out = "noResult" -> "TypeError"
    [] out = "noToken" -> "Invalid credentials"
    [] OTHER -> NoError

\* error.message || 'Authentication failed'
LoginErrorText(out) ==
  CASE out = "rejectMsg" -> "server message"
    [] out = "noResult" -> "TypeError"
    [] out = "noToken" -> "Invalid credentials"
    [] OTHER -> "Authentication failed"

\* login() after the await, for a response without a usable token.
LoginRespFail(out) ==
  /\ UNCHANGED <<lvars, nvars>>
  /\ authReq = "login"
  /\ authReq' = "none"
  /\ authError' = LoginErrorText(out)
  /\ authLoading' = FALSE
  /\ sessEvent' = Event("login", lsToken, lsUser, nowMs, out)
  /\ UNCHANGED <<isAuthenticated, userData, authSummaries, lsToken, lsUser, nowMs,
                 pcVerify, prefetchInFlight, strictMode, loginRecord>>
  /\ Routed(route)

\* login() that authenticates without persisting the profile
LoginRespOkProfileNotPersisted(tok, user) ==
  /\ UNCHANGED <<lvars, nvars>>
  /\ authReq = "login"
  /\ tok.kind # "missing"
  /\ authReq' = "none"
  /\ lsToken' = tok
  /\ lsUser' = lsUser
  /\ userData' = user
  /\ isAuthenticated' = TRUE
  /\ authLoading' = FALSE
  /\ sessEvent' = Event("login", tok, JSONStringify(user), nowMs, "success")
  /\ loginRecord' = [done |-> TRUE, user |-> user, tok |-> tok]
  /\ UNCHANGED <<authSummaries, authError, nowMs, pcVerify, prefetchInFlight, strictMode>>
  /\ Routed("/dashboard")

\* login() after the await, for a response whose result.auth_token is truthy.
LoginRespOk(tok, user) ==
  /\ UNCHANGED <<lvars, nvars>>
  /\ authReq = "login"
  /\ tok.kind # "missing"
  /\ authReq' = "none"
  /\ lsToken' = tok
  /\ lsUser' = JSONStringify(user)
  /\ userData' = user
  /\ isAuthenticated' = TRUE
  /\ authLoading' = FALSE
  /\ sessEvent' = Event("login", tok, JSONStringify(user), nowMs, "success")
  /\ loginRecord' = [done |-> TRUE, user |-> user, tok |-> tok]
  /\ UNCHANGED <<authSummaries, authError, nowMs, pcVerify, prefetchInFlight, strictMode>>
  /\ Routed("/dashboard")

\* register() up to await createUser(...).
RegisterStart ==
  /\ UNCHANGED <<lvars, nvars>>
  /\ pcVerify # "init"
  /\ AuthFormsRendered
  /\ authReq = "none"
  /\ authReq' = "register"
  /\ authLoading' = TRUE
  /\ authError' = NoError
  /\ sessEvent' = Event("registerStart", lsToken, lsUser, nowMs, "sent")
  /\ UNCHANGED <<isAuthenticated, userData, authSummaries, lsToken, lsUser, nowMs,
                 pcVerify, prefetchInFlight, strictMode, loginRecord>>
  /\ Routed(route)

\* register() that signs the created user in
RegisterRespAutoLogin(out) ==
  /\ UNCHANGED <<lvars, nvars>>
  /\ authReq = "register"
  /\ authReq' = "none"
  /\ authError' = CASE out = "success" -> authError
                    [] out = "rejectMsg" -> "server message"
                    [] OTHER -> "Registration failed"
  /\ authLoading' = FALSE
  /\ isAuthenticated' = (isAuthenticated \/ out = "success")
  /\ sessEvent' = Event("register", lsToken, lsUser, nowMs, out)
  /\ UNCHANGED <<userData, authSummaries, lsToken, lsUser, nowMs,
                 pcVerify, prefetchInFlight, strictMode, loginRecord>>
  /\ Routed(IF out = "success" THEN "/dashboard" ELSE route)

\* register() after the await.
RegisterResp(out) ==
  /\ UNCHANGED <<lvars, nvars>>
  /\ authReq = "register"
  /\ authReq' = "none"
  /\ authError' = CASE out = "success" -> authError
                    [] out = "rejectMsg" -> "server message"
                    [] OTHER -> "Registration failed"
  /\ authLoading' = FALSE
  /\ sessEvent' = Event("register", lsToken, lsUser, nowMs, out)
  /\ UNCHANGED <<isAuthenticated, userData, authSummaries, lsToken, lsUser, nowMs,
                 pcVerify, prefetchInFlight, strictMode, loginRecord>>
  /\ Routed(IF out = "success" THEN "/dashboard" ELSE route)

\* The page is reloaded: component state is rebuilt, localStorage survives,
\* responses to the old page's requests are never delivered.
Restart ==
  /\ UNCHANGED <<lvars, nvars>>
  /\ pcVerify # "init"
  /\ isAuthenticated' = FALSE
  /\ userData' = NullUser
  /\ authSummaries' = <<>>
  /\ authLoading' = TRUE
  /\ authError' = NoError
  /\ pcVerify' = "init"
  /\ prefetchInFlight' = 0
  /\ authReq' = "none"
  /\ sessEvent' = Event("restart", lsToken, lsUser, nowMs, "ok")
  /\ UNCHANGED <<lsToken, lsUser, nowMs, strictMode, loginRecord>>
  /\ Routed(route)

\* The browser's back and forward buttons, or a link, change the location
\* without reloading the page (BrowserRouter, App.js 251-266).
Navigate(path) ==
  /\ UNCHANGED <<lvars, nvars>>
  /\ RouteFor(path) # route
  /\ sessEvent' = Event("navigate", lsToken, lsUser, nowMs, "ok")
  /\ UNCHANGED <<isAuthenticated, userData, authSummaries, authLoading, authError,
                 lsToken, lsUser, nowMs, pcVerify, prefetchInFlight, authReq, strictMode,
                 loginRecord>>
  /\ Routed(RouteFor(path))

\* Time passes.
Tick ==
  /\ UNCHANGED <<lvars, nvars>>
  /\ nowMs < MaxTicks * (MsPerSec \div 2)
  /\ nowMs' = nowMs + MsPerSec \div 2
  /\ UNCHANGED <<isAuthenticated, userData, authSummaries, authLoading, authError,
                 lsToken, lsUser, pcVerify, prefetchInFlight, authReq, strictMode,
                 sessEvent, loginRecord, route>>


\* Gateway calls in flight and the view's history records.
LEvent(op, out) == [op |-> op, out |-> out]
Request(seq, op, arg) == [seq |-> seq, op |-> op, arg |-> arg, live |-> TRUE, dlive |-> TRUE]
NoApplied == [owned |-> 0, shared |-> 0]

\* useState defaults of Dashboard (11-15), SummariesList (61-74) and
\* SelectedSummary (19-22), with the calls reqs in flight.
ViewDefaults(reqs) ==
  /\ dashLoading = TRUE
  /\ selectedSummary = NoSummary
  /\ summaries = <<>>
  /\ sharedSummaries = <<>>
  /\ searchQuery = <<>>
  /\ loading = TRUE
  /\ error = NoError
  /\ deleting = FALSE
  /\ currentView = "my-summaries"
  /\ sharingSummary = NoSummary
  /\ recipient = <<>>
  /\ sharing = FALSE
  /\ errorMessage = <<>>
  /\ deleteDialogOpen = FALSE
  /\ summaryToDelete = 0
  /\ activeTab = "all"
  /\ isRegenerating = FALSE
  /\ feedback = <<>>
  /\ regenerating = FALSE
  /\ requests = reqs
  /\ nextSeq = Cardinality(reqs) + 1
  /\ lastEvent = LEvent("none", "done")
  /\ applied = NoApplied
  /\ openNewDialog = FALSE
  /\ summaryType = ""
  /\ inputMethod = ""
  /\ content = <<>>
  /\ file = FALSE
  /\ dialogLoading = FALSE

\* The page is opened with whatever an earlier visit left in localStorage; the
\* dashboard is not mounted.
SessionInit ==
  /\ ViewDefaults({})
  /\ isAuthenticated = FALSE
  /\ userData = NullUser
  /\ authSummaries = <<>>
  /\ authLoading = TRUE
  /\ authError = NoError
  /\ lsToken \in TokenValues
  /\ lsUser \in StoredValues
  /\ nowMs = 0
  /\ pcVerify = "init"
  /\ prefetchInFlight = 0
  /\ authReq = "none"
  /\ strictMode \in BOOLEAN
  /\ sessEvent = NoEvent
  /\ loginRecord = NoLogin
  /\ route \in {RouteFor(path) : path \in Paths}

SessionNext ==
  \/ VerifyToken
  \/ \E out \in PrefetchOutcomes, p \in PrefetchPayloads : PrefetchResp(out, p)
  \/ LoginStart
  \/ \E out \in LoginFailures : LoginRespFail(out)
  \/ \E tok \in TokenValues, u \in UserValues : LoginRespOk(tok, u)
  \/ RegisterStart
  \/ \E out \in {"success", "reject", "rejectMsg"} : RegisterResp(out)
  \/ Logout
  \/ \E path \in Paths : Navigate(path)
  \/ Restart
  \/ Tick

SessionSpec == SessionInit /\ [][SessionNext]_vars

\* One life of the page, from its load on: the mount effect runs verifyToken
\* and every call of getUserSummaries it issued is answered.
StartupNext ==
  \/ VerifyToken
  \/ \E out \in PrefetchOutcomes, p \in PrefetchPayloads : PrefetchResp(out, p)
  \/ LoginStart
  \/ \E out \in LoginFailures : LoginRespFail(out)
  \/ \E tok \in TokenValues, u \in UserValues : LoginRespOk(tok, u)
  \/ RegisterStart
  \/ \E out \in {"success", "reject", "rejectMsg"} : RegisterResp(out)
  \/ Logout
  \/ \E path \in Paths : Navigate(path)
  \/ Tick

StartupSpec ==
  /\ SessionInit
  /\ [][StartupNext]_vars
  /\ WF_vars(VerifyToken)
  /\ WF_vars(\E out \in PrefetchOutcomes, p \in PrefetchPayloads : PrefetchResp(out, p))

----------------------------------------------------------------------------
\* Text helpers (String.prototype.toLowerCase, includes, trim)
LowerChar(c) == CASE c = "A" -> "a" [] c = "B" -> "b" [] c = "C" -> "c" [] OTHER -> c
ToLower(t) == [i \in 1..Len(t) |-> LowerChar(t[i])]
LowerType(ty) == CASE ty = "Code" -> "code" [] ty = "Research" -> "research"
                   [] ty = "Documentation" -> "documentation" [] OTHER -> ty
Includes(t, q) == \E i \in 1..(Len(t) + 1) :
                     /\ i + Len(q) - 1 <= Len(t)
                     /\ SubSeq(t, i, i + Len(q) - 1) = q
RECURSIVE TrimLeft(_)
TrimLeft(t) == IF t # <<>> /\ Head(t) = " " THEN TrimLeft(Tail(t)) ELSE t
RECURSIVE TrimRight(_)
TrimRight(t) == IF t # <<>> /\ t[Len(t)] = " " THEN TrimRight(SubSeq(t, 1, Len(t) - 1)) ELSE t
\* feedback taken as typed: !feedback instead of !feedback.trim()
NoTrim(t) == t

Trim(t) == TrimRight(TrimLeft(t))

\* filteredSummaries / filteredSharedSummaries: Array.prototype.filter,
\* element by element.
MatchesTab(s, tab) == tab = "all" \/ LowerType(s.type) = tab
\* the query looked up in the title only, as typed
MatchesSearchTitleOnly(s, q) == Includes(s.title, q)

MatchesSearch(s, q) == \/ Includes(ToLower(s.title), ToLower(q))
                       \/ Includes(ToLower(s.outputData), ToLower(q))
RECURSIVE FilteredList(_, _, _)
FilteredList(list, tab, q) ==
  IF list = <<>> THEN <<>>
  ELSE IF MatchesTab(Head(list), tab) /\ MatchesSearch(Head(list), q)
    THEN <<Head(list)>> \o FilteredList(Tail(list), tab, q)
    ELSE FilteredList(Tail(list), tab, q)

\* prev.filter(...) with the list index taken for the id
RemoveAtIndex(list, summaryId) ==
  IF summaryId \in 1..Len(list)
    THEN [i \in 1..(Len(list) - 1) |-> IF i < summaryId THEN list[i] ELSE list[i + 1]]
    ELSE list

\* prev.filter((summary) => summary.id !== summaryId)
RECURSIVE RemoveById(_, _)
RemoveById(list, summaryId) ==
  IF list = <<>> THEN <<>>
  ELSE IF Head(list).id # summaryId
    THEN <<Head(list)>> \o RemoveById(Tail(list), summaryId)
    ELSE RemoveById(Tail(list), summaryId)

----------------------------------------------------------------------------
\* Dashboard, SummariesList, SelectedSummary

Max(a, b) == IF a > b THEN a ELSE b

\* Inputs and responses
Views == {"my-summaries", "shared-summaries"}
Tabs == {"all", "code", "research", "documentation"}
TabInputs == {"all", "research"}
Queries == {<<>>, <<"A">>}
Recipients == {<<>>, <<"b">>}
Feedbacks == {<<>>, <<" ">>, <<"f">>}
ListPayloads == {<<>>, <<S3, S1>>, <<S1, S2, S3>>}
FetchOutcomes == {"ok", "badStatus", "notArray", "reject", "unauthorized"}
CallOutcomes == {"ok", "reject", "unauthorized"}

\* ProtectedRoute renders Dashboard, and Dashboard renders SummariesList
\* (App.js 221-240, Dashboard.js 62-76).
ListMountedIn(dl) == isAuthenticated /\ ~authLoading /\ ~dl
\* The render gates of SummariesList (282-304).
GridShown == /\ ListMountedIn(dashLoading)
             /\ ~loading /\ error = NoError /\ selectedSummary.id = 0
DetailShownIn(dl, ld, er, sel) == ListMountedIn(dl) /\ ~ld /\ er = NoError /\ sel.id # 0
DetailShown == DetailShownIn(dashLoading, loading, error, selectedSummary)
\* A modal dialog covers the grid.
NoModal == ~deleteDialogOpen /\ sharingSummary.id = 0

\* The list the grid maps over (373).
VisibleList == FilteredList(IF currentView = "my-summaries" THEN summaries ELSE sharedSummaries,
                            activeTab, searchQuery)
VisibleItems == {VisibleList[i] : i \in 1..Len(VisibleList)}

\* React drops the state updates of an unmounted component: the calls a
\* component issued stay in flight, their continuations no longer write its
\* state; a component that is mounted again starts from its useState defaults.
Settle(reqs, reg, fb, busy) ==
  LET shown == DetailShownIn(dashLoading', loading', error', selectedSummary')
      mounted == ListMountedIn(dashLoading')
  IN /\ requests' = {[r EXCEPT !.live = r.op = "dash" \/ (r.live /\ mounted),
                               !.dlive = r.op = "dash" \/ (r.dlive /\ shown)] : r \in reqs}
     /\ isRegenerating' = (shown /\ reg)
     /\ feedback' = IF shown THEN fb ELSE <<>>
     /\ regenerating' = (shown /\ busy)

SettleSame(reqs) == Settle(reqs, isRegenerating, feedback, regenerating)

\* useState defaults of SummariesList (61-74), loading as given.
ListDefaults(ld) ==
  /\ summaries' = <<>>
  /\ sharedSummaries' = <<>>
  /\ searchQuery' = <<>>
  /\ loading' = ld
  /\ error' = NoError
  /\ deleting' = FALSE
  /\ currentView' = "my-summaries"
  /\ sharingSummary' = NoSummary
  /\ recipient' = <<>>
  /\ sharing' = FALSE
  /\ errorMessage' = <<>>
  /\ deleteDialogOpen' = FALSE
  /\ summaryToDelete' = 0
  /\ activeTab' = "all"
  /\ applied' = NoApplied

\* The effect of a mount runs once, twice in a StrictMode development build.
EffectRuns == IF strictMode THEN 2 ELSE 1

\* Dashboard's fetchSummaries after its await (Dashboard.js 19-32); when the
\* loading gate opens, SummariesList mounts and its effect (125-133) calls
\* fetchSummaries().
DashFetchResp(r, out) ==
  /\ r \in requests /\ r.op = "dash"
  /\ UNCHANGED <<svars, nvars>>
  /\ dashLoading' = FALSE
  /\ lastEvent' = LEvent("dash", out)
  /\ UNCHANGED selectedSummary
  /\ IF dashLoading
       THEN /\ nextSeq + EffectRuns - 1 <= MaxReq
            /\ ListDefaults(TRUE)
            /\ nextSeq' = nextSeq + EffectRuns
            /\ SettleSame((requests \ {r}) \cup
                          {Request(nextSeq + k, "owned", 0) : k \in 0..(EffectRuns - 1)})
       ELSE /\ UNCHANGED <<summaries, sharedSummaries, searchQuery, loading, error, deleting,
                           currentView, sharingSummary, recipient, sharing, errorMessage,
                           deleteDialogOpen, summaryToDelete, activeTab, applied, nextSeq>>
            /\ SettleSame(requests \ {r})

\* setSummaries(data) happens only after both checks of the response passed
\* (83-90); this variant stores the result before looking at the status.
StoredListUnchecked(out, payload, old) == IF out \in {"ok", "badStatus"} THEN payload ELSE old

StoredList(out, payload, old) == IF out = "ok" THEN payload ELSE old

FetchErrorText(op) == IF op = "owned" THEN "loadFailed" ELSE "loadSharedFailed"

\* fetchSummaries / fetchSharedSummaries after the await (82-96, 105-119).
FetchResp(r, out, payload) ==
  /\ r \in requests /\ r.op \in {"owned", "shared"}
  /\ UNCHANGED <<svars, nvars>>
  /\ lastEvent' = LEvent(r.op, out)
  /\ UNCHANGED <<dashLoading, selectedSummary, searchQuery, deleting, currentView,
                 sharingSummary, recipient, sharing, errorMessage, deleteDialogOpen,
                 summaryToDelete, activeTab, nextSeq>>
  /\ IF r.live
       THEN /\ summaries' = IF r.op = "owned" THEN StoredList(out, payload, summaries)
                            ELSE summaries
            /\ sharedSummaries' = IF r.op = "shared" THEN StoredList(out, payload, sharedSummaries)
                                  ELSE sharedSummaries
            /\ error' = IF out = "ok" THEN error ELSE FetchErrorText(r.op)
            /\ loading' = FALSE
            /\ applied' = IF out = "ok" THEN [applied EXCEPT ![r.op] = Max(@, r.seq)]
                          ELSE applied
       ELSE UNCHANGED <<summaries, sharedSummaries, error, loading, applied>>
  /\ SettleSame(requests \ {r})

\* The exclusive ToggleButtonGroup reports null for the button that is
\* already selected (SummaryToggle.js 52-64).
ToggleValue(view, current) == IF view = current THEN "null" ELSE view

\* handleChange without its null check
HandleChangeAlways(newView) == TRUE

\* if (newView !== null) (SummaryToggle.js 46)
HandleChangeCalls(newView) == newView # "null"

\* setCurrentView(view === 'my-summaries' ? 'my-summaries' : 'shared-summaries') (367)
ViewAfterToggle(view) == IF view = "my-summaries" THEN "my-summaries" ELSE "shared-summaries"

\* the effect calling fetchSummaries() whatever the view
FetchOpAlwaysOwned(view) == "owned"

\* The call the effect makes for a view (126-132).
FetchOpFor(view) == IF view = "my-summaries" THEN "owned" ELSE "shared"

\* SummaryToggle handleChange (SummaryToggle.js 45-49) and onToggleChange
\* (365-369); the effect (125-133) fetches when currentView changed.
ToggleClick(view) ==
  /\ GridShown /\ NoModal
  /\ UNCHANGED <<svars, nvars>>
  /\ UNCHANGED <<dashLoading, selectedSummary, summaries, sharedSummaries, error, deleting,
                 sharingSummary, recipient, sharing, errorMessage, deleteDialogOpen,
                 summaryToDelete, activeTab, applied>>
  /\ lastEvent' = LEvent(IF view = currentView THEN "toggleSame" ELSE "toggle", view)
  /\ LET newView == ToggleValue(view, currentView)
         target == ViewAfterToggle(newView)
     IN IF ~HandleChangeCalls(newView)
          THEN /\ UNCHANGED <<currentView, searchQuery, loading, nextSeq>>
               /\ SettleSame(requests)
          ELSE /\ currentView' = target
               /\ searchQuery' = <<>>
               /\ IF target # currentView
                    THEN /\ nextSeq <= MaxReq
                         /\ loading' = TRUE
                         /\ nextSeq' = nextSeq + 1
                         /\ SettleSame(requests \cup {Request(nextSeq, FetchOpFor(target), 0)})
                    ELSE /\ UNCHANGED <<loading, nextSeq>>
                         /\ SettleSame(requests)

\* onChange of the search field (319).
SetSearchQuery(q) ==
  /\ GridShown /\ NoModal
  /\ searchQuery' = q
  /\ lastEvent' = LEvent(IF q = searchQuery THEN "filterSame" ELSE "ui", "done")
  /\ UNCHANGED <<svars, nvars>>
  /\ UNCHANGED <<dashLoading, selectedSummary, summaries, sharedSummaries, loading, error,
                 deleting, currentView, sharingSummary, recipient, sharing, errorMessage,
                 deleteDialogOpen, summaryToDelete, activeTab, nextSeq, applied>>
  /\ SettleSame(requests)

\* a tab handler that clears the filter when the active tab is chosen again
TabToggledOff(newValue, old) == IF newValue = old THEN "all" ELSE newValue

\* setActiveTab(newValue) (260)
TabAfterChange(newValue, old) == newValue

\* handleTabChange (259-261).
TabChange(tab) ==
  /\ GridShown /\ NoModal
  /\ activeTab' = TabAfterChange(tab, activeTab)
  /\ lastEvent' = LEvent(IF tab = activeTab THEN "filterSame" ELSE "ui", "done")
  /\ UNCHANGED <<svars, nvars>>
  /\ UNCHANGED <<dashLoading, selectedSummary, summaries, sharedSummaries, searchQuery,
                 loading, error, deleting, currentView, sharingSummary, recipient, sharing,
                 errorMessage, deleteDialogOpen, summaryToDelete, nextSeq, applied>>
  /\ SettleSame(requests)

\* The Delete button of a card (436-446) calls confirmDeleteSummary (231-234).
ConfirmDeleteSummary(s) ==
  /\ GridShown /\ NoModal
  /\ currentView = "my-summaries"
  /\ ~deleting
  /\ s \in VisibleItems
  /\ summaryToDelete' = s.id
  /\ deleteDialogOpen' = TRUE
  /\ lastEvent' = LEvent("ui", "done")
  /\ UNCHANGED <<svars, nvars>>
  /\ UNCHANGED <<dashLoading, selectedSummary, summaries, sharedSummaries, searchQuery,
                 loading, error, deleting, currentView, sharingSummary, recipient, sharing,
                 errorMessage, activeTab, nextSeq, applied>>
  /\ SettleSame(requests)

\* Cancel button and onClose of the confirmation dialog (469, 477).
CancelDelete ==
  /\ GridShown /\ deleteDialogOpen
  /\ deleteDialogOpen' = FALSE
  /\ lastEvent' = LEvent("cancelDelete", "done")
  /\ UNCHANGED <<svars, nvars>>
  /\ UNCHANGED <<dashLoading, selectedSummary, summaries, sharedSummaries, searchQuery,
                 loading, error, deleting, currentView, sharingSummary, recipient, sharing,
                 errorMessage, summaryToDelete, activeTab, nextSeq, applied>>
  /\ SettleSame(requests)

\* Delete button of the confirmation dialog (483-486) and handleDeleteSummary
\* up to its await (139-142).
DialogDelete ==
  /\ GridShown /\ deleteDialogOpen
  /\ nextSeq <= MaxReq
  /\ deleteDialogOpen' = FALSE
  /\ deleting' = TRUE
  /\ nextSeq' = nextSeq + 1
  /\ lastEvent' = LEvent("ui", "done")
  /\ UNCHANGED <<svars, nvars>>
  /\ UNCHANGED <<dashLoading, selectedSummary, summaries, sharedSummaries, searchQuery,
                 loading, error, currentView, sharingSummary, recipient, sharing,
                 errorMessage, summaryToDelete, activeTab, applied>>
  /\ SettleSame(requests \cup {Request(nextSeq, "delete", summaryToDelete)})

\* The list is touched only after the awaited delete resolved (142-143); this
\* variant removes the item whatever the outcome.
AfterDeleteAlways(out, list, summaryId) == RemoveById(list, summaryId)

AfterDelete(out, list, summaryId) == IF out = "ok" THEN RemoveById(list, summaryId) ELSE list

\* handleDeleteSummary after the await (143-149).
DeleteResp(r, out) ==
  /\ r \in requests /\ r.op = "delete"
  /\ UNCHANGED <<svars, nvars>>
  /\ lastEvent' = LEvent("delete", out)
  /\ UNCHANGED <<dashLoading, selectedSummary, sharedSummaries, searchQuery, loading,
                 currentView, sharingSummary, recipient, sharing, errorMessage,
                 deleteDialogOpen, summaryToDelete, activeTab, nextSeq, applied>>
  /\ IF r.live
       THEN /\ summaries' = AfterDelete(out, summaries, r.arg)
            /\ error' = IF out = "ok" THEN error ELSE "deleteFailed"
            /\ deleting' = FALSE
       ELSE UNCHANGED <<summaries, error, deleting>>
  /\ SettleSame(requests \ {r})

\* The Share button of a card (447-457) calls handleShareSummary (156-158).
ShareClick(s) ==
  /\ GridShown /\ NoModal
  /\ currentView = "my-summaries"
  /\ s \in VisibleItems
  /\ sharingSummary' = s
  /\ lastEvent' = LEvent("ui", "done")
  /\ UNCHANGED <<svars, nvars>>
  /\ UNCHANGED <<dashLoading, selectedSummary, summaries, sharedSummaries, searchQuery,
                 loading, error, deleting, currentView, recipient, sharing, errorMessage,
                 deleteDialogOpen, summaryToDelete, activeTab, nextSeq, applied>>
  /\ SettleSame(requests)

\* onChange of the recipient field (523).
SetRecipient(x) ==
  /\ GridShown /\ sharingSummary.id # 0
  /\ x # recipient
  /\ recipient' = x
  /\ lastEvent' = LEvent("ui", "done")
  /\ UNCHANGED <<svars, nvars>>
  /\ UNCHANGED <<dashLoading, selectedSummary, summaries, sharedSummaries, searchQuery,
                 loading, error, deleting, currentView, sharingSummary, sharing, errorMessage,
                 deleteDialogOpen, summaryToDelete, activeTab, nextSeq, applied>>
  /\ SettleSame(requests)

\* the recipient check left out
RecipientNeverMissing(x) == FALSE

\* if (!recipient) (164)
RecipientMissing(x) == x = <<>>

\* handleSendShare up to its await (163-171); the button is disabled while
\* sharing (537).
SendShare ==
  /\ GridShown /\ sharingSummary.id # 0
  /\ ~sharing
  /\ UNCHANGED <<svars, nvars>>
  /\ UNCHANGED <<dashLoading, selectedSummary, summaries, sharedSummaries, searchQuery,
                 loading, error, deleting, currentView, sharingSummary, recipient,
                 errorMessage, deleteDialogOpen, summaryToDelete, activeTab, applied>>
  /\ IF RecipientMissing(recipient)
       THEN /\ lastEvent' = LEvent("alertNoRecipient", "done")
            /\ UNCHANGED <<sharing, nextSeq>>
            /\ SettleSame(requests)
       ELSE /\ nextSeq <= MaxReq
            /\ lastEvent' = LEvent("ui", "done")
            /\ sharing' = TRUE
            /\ nextSeq' = nextSeq + 1
            /\ SettleSame(requests \cup {Request(nextSeq, "share", sharingSummary.id)})

\* the thrown value's detail is never shown
ShareErrorTextDropped(out) == <<>>

\* err.detail of what shareSummary throws: the response body's detail, or
\* undefined when the thrown value is the fallback string (176-178).
ShareErrorText(out) == IF out = "rejectDetail" THEN <<"d">> ELSE <<>>

\* handleSendShare after the await (172-181).
ShareResp(r, out) ==
  /\ r \in requests /\ r.op = "share"
  /\ UNCHANGED <<svars, nvars>>
  /\ lastEvent' = LEvent("share", out)
  /\ UNCHANGED <<dashLoading, selectedSummary, summaries, sharedSummaries, searchQuery,
                 loading, error, deleting, currentView, deleteDialogOpen, summaryToDelete,
                 activeTab, nextSeq, applied>>
  /\ IF r.live
       THEN /\ sharingSummary' = IF out = "ok" THEN NoSummary ELSE sharingSummary
            /\ recipient' = IF out = "ok" THEN <<>> ELSE recipient
            /\ errorMessage' = IF out = "ok" THEN errorMessage ELSE ShareErrorText(out)
            /\ sharing' = FALSE
       ELSE UNCHANGED <<sharingSummary, recipient, errorMessage, sharing>>
  /\ SettleSame(requests \ {r})

\* handleCloseDialog (220-225), Cancel and onClose of the share dialog.
CloseDialog ==
  /\ GridShown /\ sharingSummary.id # 0
  /\ selectedSummary' = NoSummary
  /\ sharingSummary' = NoSummary
  /\ recipient' = <<>>
  /\ errorMessage' = <<>>
  /\ lastEvent' = LEvent("ui", "done")
  /\ UNCHANGED <<svars, nvars>>
  /\ UNCHANGED <<dashLoading, summaries, sharedSummaries, searchQuery, loading, error,
                 deleting, currentView, sharing, deleteDialogOpen, summaryToDelete,
                 activeTab, nextSeq, applied>>
  /\ SettleSame(requests)

\* handleViewSummary (202-204), from a card or its View button.
ViewSummary(s) ==
  /\ GridShown /\ NoModal
  /\ s \in VisibleItems
  /\ selectedSummary' = s
  /\ lastEvent' = LEvent("ui", "done")
  /\ UNCHANGED <<svars, nvars>>
  /\ UNCHANGED <<dashLoading, summaries, sharedSummaries, searchQuery, loading, error,
                 deleting, currentView, sharingSummary, recipient, sharing, errorMessage,
                 deleteDialogOpen, summaryToDelete, activeTab, nextSeq, applied>>
  /\ SettleSame(requests)

\* handleBackToList (209-215): onRefresh is Dashboard's handleRefresh (57-59),
\* whose effect (18-37) sets Dashboard's loading and fetches; the loading gate
\* (62-76) unmounts SummariesList.
BackToList ==
  /\ DetailShown
  /\ nextSeq <= MaxReq
  /\ selectedSummary' = NoSummary
  /\ dashLoading' = TRUE
  /\ ListDefaults(TRUE)
  /\ nextSeq' = nextSeq + 1
  /\ lastEvent' = LEvent("back", "done")
  /\ UNCHANGED <<svars, nvars>>
  /\ SettleSame(requests \cup {Request(nextSeq, "dash", 0)})

\* handleRegenerateClick (SelectedSummary.js 27-29).
RegenerateClick ==
  /\ DetailShown
  /\ lastEvent' = LEvent("ui", "done")
  /\ UNCHANGED <<svars, nvars>>
  /\ UNCHANGED <<dashLoading, selectedSummary, summaries, sharedSummaries, searchQuery,
                 loading, error, deleting, currentView, sharingSummary, recipient, sharing,
                 errorMessage, deleteDialogOpen, summaryToDelete, activeTab, nextSeq, applied>>
  /\ Settle(requests, ~isRegenerating, feedback, regenerating)

\* onChange of the feedback field, shown while the box is open.
SetFeedback(f) ==
  /\ DetailShown /\ isRegenerating
  /\ f # feedback
  /\ lastEvent' = LEvent("ui", "done")
  /\ UNCHANGED <<svars, nvars>>
  /\ UNCHANGED <<dashLoading, selectedSummary, summaries, sharedSummaries, searchQuery,
                 loading, error, deleting, currentView, sharingSummary, recipient, sharing,
                 errorMessage, deleteDialogOpen, summaryToDelete, activeTab, nextSeq, applied>>
  /\ Settle(requests, isRegenerating, f, regenerating)

\* handleSubmitRegenerate up to its await (34-42); the Submit button is
\* disabled while regenerating or when the feedback trims to nothing (261-270).
SubmitRegenerate ==
  /\ DetailShown /\ isRegenerating
  /\ ~regenerating /\ Trim(feedback) # <<>>
  /\ nextSeq <= MaxReq
  /\ nextSeq' = nextSeq + 1
  /\ lastEvent' = LEvent("ui", "done")
  /\ UNCHANGED <<svars, nvars>>
  /\ UNCHANGED <<dashLoading, selectedSummary, summaries, sharedSummaries, searchQuery,
                 loading, error, deleting, currentView, sharingSummary, recipient, sharing,
                 errorMessage, deleteDialogOpen, summaryToDelete, activeTab, applied>>
  /\ Settle(requests \cup {Request(nextSeq, "regen", selectedSummary.id)},
            isRegenerating, feedback, TRUE)

\* setFeedback('') moved to the finally block
FeedbackAfterRegenAlways(out, fb) == <<>>

\* setFeedback('') runs only when the awaited call resolved (43-45)
FeedbackAfterRegen(out, fb) == IF out = "ok" THEN <<>> ELSE fb

\* handleSubmitRegenerate after the await (43-50): on success it calls
\* onSummaryRegenerate, which is handleSummaryRegenerate up to its await
\* (188-191), then clears the form.
RegenResp(r, out) ==
  /\ r \in requests /\ r.op = "regen"
  /\ lastEvent' = LEvent("regen", out)
  /\ UNCHANGED <<svars, nvars>>
  /\ UNCHANGED <<dashLoading, selectedSummary, summaries, sharedSummaries, searchQuery,
                 loading, error, deleting, currentView, sharingSummary, recipient, sharing,
                 errorMessage, deleteDialogOpen, summaryToDelete, activeTab, nextSeq, applied>>
  /\ LET rest == (requests \ {r}) \cup
                   (IF out = "ok" THEN {[r EXCEPT !.op = "refetch"]} ELSE {})
     IN IF r.dlive
          THEN Settle(rest, IF out = "ok" THEN FALSE ELSE isRegenerating,
                      FeedbackAfterRegen(out, feedback), FALSE)
          ELSE SettleSame(rest)

\* regeneratedSummary.result (192): the item of an OK response, undefined in
\* a response that resolved without a result.
RefetchResult(out, id, old) ==
  CASE out = "ok" -> Regenerated(id)
    [] out = "badStatus" -> NoSummary
    [] OTHER -> old

\* handleSummaryRegenerate after the await (191-195): setSelectedSummary is
\* Dashboard's setter.
RefetchResp(r, out) ==
  /\ r \in requests /\ r.op = "refetch"
  /\ lastEvent' = LEvent("refetch", out)
  /\ selectedSummary' = RefetchResult(out, r.arg, selectedSummary)
  /\ UNCHANGED <<svars, nvars>>
  /\ UNCHANGED <<dashLoading, summaries, sharedSummaries, searchQuery, loading, error,
                 deleting, currentView, sharingSummary, recipient, sharing, errorMessage,
                 deleteDialogOpen, summaryToDelete, activeTab, nextSeq, applied>>
  /\ SettleSame(requests \ {r})

----------------------------------------------------------------------------
\* NewSummaryDialog (index.js 144-374) and Dashboard's handleNewSummary

NewTypes == {"code", "research"}
Methods == {"upload", "type"}
Contents == {<<>>, <<"x">>}

\* '' and null are falsy.
Truthy(v) == v \notin {"", "null"}

\* The view state no dialog handler writes.
listState == <<dashLoading, summaries, sharedSummaries, searchQuery, loading, error,
               deleting, currentView, sharingSummary, recipient, sharing, errorMessage,
               deleteDialogOpen, summaryToDelete, activeTab, applied>>

\* onNewSummaryClick (part_000 342): setOpenNewDialog(true) (Dashboard.js 93).
NewSummaryClick ==
  /\ GridShown /\ NoModal /\ ~openNewDialog
  /\ openNewDialog' = TRUE
  /\ UNCHANGED <<summaryType, inputMethod, content, file, dialogLoading>>
  /\ UNCHANGED <<svars, lvars>>

\* The type buttons (262-278) and the effect on [summaryType] (153-157).
SelectType(t) ==
  /\ openNewDialog
  /\ summaryType' = ToggleValue(t, summaryType)
  /\ inputMethod' = ""
  /\ content' = <<>>
  /\ file' = FALSE
  /\ UNCHANGED <<openNewDialog, dialogLoading>>
  /\ UNCHANGED <<svars, lvars>>

\* The input method buttons (281-294).
SelectMethod(m) ==
  /\ openNewDialog /\ Truthy(summaryType)
  /\ inputMethod' = ToggleValue(m, inputMethod)
  /\ UNCHANGED <<openNewDialog, summaryType, content, file, dialogLoading>>
  /\ UNCHANGED <<svars, lvars>>

\* The text field (323-337).
SetContent(c) ==
  /\ openNewDialog /\ inputMethod = "type"
  /\ content' = c
  /\ UNCHANGED <<openNewDialog, summaryType, inputMethod, file, dialogLoading>>
  /\ UNCHANGED <<svars, lvars>>

\* handleFileChange (165-178) for a file within the size limit.
SetFile ==
  /\ openNewDialog /\ inputMethod = "upload"
  /\ file' = TRUE
  /\ UNCHANGED <<openNewDialog, summaryType, inputMethod, content, dialogLoading>>
  /\ UNCHANGED <<svars, lvars>>

\* handleReset (184-189).
HandleReset ==
  /\ summaryType' = ""
  /\ inputMethod' = ""
  /\ content' = <<>>
  /\ file' = FALSE

\* handleCancel (195-198): the Cancel button and the dialog's onClose.
CancelCreate ==
  /\ openNewDialog
  /\ HandleReset
  /\ openNewDialog' = FALSE
  /\ UNCHANGED dialogLoading
  /\ UNCHANGED <<svars, lvars>>

\* The Create button is enabled (367); handleTypeSelect tests the same (206).
CreateEnabled ==
  Truthy(summaryType) /\ Truthy(inputMethod) /\ (content # <<>> \/ file)

\* The Create button (361-365) up to the await in handleTypeSelect (214-221).
CreateClick ==
  /\ openNewDialog /\ CreateEnabled
  /\ nextSeq <= MaxReq
  /\ dialogLoading' = TRUE
  /\ nextSeq' = nextSeq + 1
  /\ lastEvent' = LEvent("ui", "done")
  /\ UNCHANGED <<openNewDialog, summaryType, inputMethod, content, file>>
  /\ UNCHANGED <<svars, listState, selectedSummary>>
  /\ SettleSame(requests \cup {Request(nextSeq, "create", 0)})

\* The arguments of the onCreate calls that follow the create call, 0 for
\* undefined: handleTypeSelect calls onCreate(createdSummary) when the call
\* resolved (224), and the button's handler calls
\* onCreate(await handleTypeSelect()) in every case (363-364).
OnCreateArgs(out, id) == IF out = "ok" THEN <<id, id>> ELSE <<0>>

\* handleTypeSelect after its await (222-230), the rest of the button's
\* handler (364), and handleNewSummary up to its await (Dashboard.js 40-43)
\* for each onCreate call.
CreateResp(r, out, id) ==
  /\ r \in requests /\ r.op = "create"
  /\ lastEvent' = LEvent("create", out)
  /\ dialogLoading' = FALSE
  /\ IF out = "ok"
       THEN HandleReset
       ELSE UNCHANGED <<summaryType, inputMethod, content, file>>
  /\ LET args == OnCreateArgs(out, id)
     IN /\ openNewDialog' = IF out = "ok" \/ Len(args) > 0 THEN FALSE ELSE openNewDialog
        /\ nextSeq' = nextSeq + Len(args)
        /\ UNCHANGED <<svars, listState, selectedSummary>>
        /\ SettleSame((requests \ {r}) \cup
             {Request(nextSeq + k - 1, "newfetch", args[k]) : k \in 1..Len(args)})

\* updatedSummaries.find(summary => summary.id === id): undefined when absent
FindById(list, id) ==
  IF \E i \in 1..Len(list) : list[i].id = id
    THEN list[CHOOSE i \in 1..Len(list) :
                /\ list[i].id = id
                /\ \A j \in 1..(i - 1) : list[j].id # id]
    ELSE NoSummary

\* handleNewSummary after its await (Dashboard.js 44-54): newSummary.result
\* throws for an undefined newSummary, after setSummaries.
NewFetchResp(r, out, payload) ==
  /\ r \in requests /\ r.op = "newfetch"
  /\ lastEvent' = LEvent("newfetch", out)
  /\ selectedSummary' = IF out = "ok" /\ r.arg # 0
                          THEN FindById(payload, r.arg)
                          ELSE selectedSummary
  /\ UNCHANGED <<svars, nvars, listState, nextSeq>>
  /\ SettleSame(requests \ {r})

\* Dashboard has just been mounted for a signed-in user: its effect has
\* issued the first fetch.
Init ==
  /\ isAuthenticated = TRUE
  /\ userData = UserObj(1)
  /\ authSummaries = <<>>
  /\ authLoading = FALSE
  /\ authError = NoError
  /\ lsToken = Jwt(MaxExp)
  /\ lsUser = JSONStringify(UserObj(1))
  /\ nowMs = 0
  /\ pcVerify = "done"
  /\ prefetchInFlight = 0
  /\ authReq = "none"
  /\ strictMode \in BOOLEAN
  /\ sessEvent = NoEvent
  /\ loginRecord = NoLogin
  /\ route = "/dashboard"
  /\ ViewDefaults({Request(k, "dash", 0) : k \in 1..EffectRuns})

Next ==
  \/ \E r \in requests, out \in CallOutcomes \cup {"badStatus"} : DashFetchResp(r, out)
  \/ \E r \in requests, out \in FetchOutcomes, p \in ListPayloads :
        /\ (out \notin {"ok", "badStatus"} => p = <<>>)
        /\ FetchResp(r, out, p)
  \/ \E v \in Views : ToggleClick(v)
  \/ \E q \in Queries : SetSearchQuery(q)
  \/ \E t \in TabInputs : TabChange(t)
  \/ \E i \in SummaryIds : ConfirmDeleteSummary(ById(i))
  \/ CancelDelete
  \/ DialogDelete
  \/ \E r \in requests, out \in CallOutcomes : DeleteResp(r, out)
  \/ \E i \in SummaryIds : ShareClick(ById(i))
  \/ \E x \in Recipients : SetRecipient(x)
  \/ SendShare
  \/ \E r \in requests, out \in CallOutcomes \cup {"rejectDetail"} : ShareResp(r, out)
  \/ CloseDialog
  \/ \E i \in SummaryIds : ViewSummary(ById(i))
  \/ BackToList
  \/ RegenerateClick
  \/ \E f \in Feedbacks : SetFeedback(f)
  \/ SubmitRegenerate
  \/ \E r \in requests, out \in CallOutcomes : RegenResp(r, out)
  \/ \E r \in requests, out \in CallOutcomes \cup {"badStatus"} : RefetchResp(r, out)

Spec == Init /\ [][Next]_vars

\* SummariesList has just been mounted under a loaded Dashboard whose own
\* fetches are answered: its effect has issued the fetch of the owned list
\* (twice in a StrictMode development build).  Calls are numbered from the
\* mount on.
DeleteInit ==
  /\ isAuthenticated = TRUE
  /\ userData = UserObj(1)
  /\ authSummaries = <<>>
  /\ authLoading = FALSE
  /\ authError = NoError
  /\ lsToken = Jwt(MaxExp)
  /\ lsUser = JSONStringify(UserObj(1))
  /\ nowMs = 0
  /\ pcVerify = "done"
  /\ prefetchInFlight = 0
  /\ authReq = "none"
  /\ strictMode \in BOOLEAN
  /\ sessEvent = NoEvent
  /\ loginRecord = NoLogin
  /\ route = "/dashboard"
  /\ dashLoading = FALSE
  /\ selectedSummary = NoSummary
  /\ summaries = <<>>
  /\ sharedSummaries = <<>>
  /\ searchQuery = <<>>
  /\ loading = TRUE
  /\ error = NoError
  /\ deleting = FALSE
  /\ currentView = "my-summaries"
  /\ sharingSummary = NoSummary
  /\ recipient = <<>>
  /\ sharing = FALSE
  /\ errorMessage = <<>>
  /\ deleteDialogOpen = FALSE
  /\ summaryToDelete = 0
  /\ activeTab = "all"
  /\ isRegenerating = FALSE
  /\ feedback = <<>>
  /\ regenerating = FALSE
  /\ requests = {[Request(k, "owned", 0) EXCEPT !.dlive = FALSE] : k \in 1..EffectRuns}
  /\ nextSeq = EffectRuns + 1
  /\ lastEvent = LEvent("dash", "ok")
  /\ applied = NoApplied
  /\ openNewDialog = FALSE
  /\ summaryType = ""
  /\ inputMethod = ""
  /\ content = <<>>
  /\ file = FALSE
  /\ dialogLoading = FALSE

\* Loading, switching and deleting in the list.
DeleteNext ==
  \/ \E r \in requests, out \in FetchOutcomes, p \in ListPayloads :
        /\ (out \notin {"ok", "badStatus"} => p = <<>>)
        /\ FetchResp(r, out, p)
  \/ \E v \in Views : ToggleClick(v)
  \/ \E i \in SummaryIds : ConfirmDeleteSummary(ById(i))
  \/ CancelDelete
  \/ DialogDelete
  \/ \E r \in requests, out \in CallOutcomes : DeleteResp(r, out)

DeleteSpec == DeleteInit /\ [][DeleteNext]_vars

\* Creating a summary from the dashboard of a production build.
CreateInit == Init /\ ~strictMode

CreateNext ==
  \/ \E r \in requests, out \in CallOutcomes \cup {"badStatus"} : DashFetchResp(r, out)
  \/ \E r \in requests, out \in FetchOutcomes, p \in ListPayloads :
        /\ (out \notin {"ok", "badStatus"} => p = <<>>)
        /\ FetchResp(r, out, p)
  \/ NewSummaryClick
  \/ \E t \in NewTypes : SelectType(t)
  \/ \E m \in Methods : SelectMethod(m)
  \/ \E c \in Contents : SetContent(c)
  \/ SetFile
  \/ CancelCreate
  \/ CreateClick
  \/ \E r \in requests, out \in {"ok", "reject"}, id \in SummaryIds :
        /\ (out # "ok" => id = 1)
        /\ CreateResp(r, out, id)
  \/ \E r \in requests, out \in {"ok", "badStatus", "reject"}, p \in ListPayloads :
        /\ (out # "ok" => p = <<>>)
        /\ NewFetchResp(r, out, p)

CreateSpec == CreateInit /\ [][CreateNext]_vars

----------------------------------------------------------------------------
\* Properties

\* The call r is answered in this step: it is in flight before and gone (or
\* continued as another call) after.
Answered(r) == /\ r \in requests
               /\ \A q \in requests' : q.seq # r.seq \/ q.op # r.op

\* C1: of two overlapping fetches of the owned list, the response of the one
\* issued first, arriving after the list of the one issued later was stored,
\* does not overwrite the list.
C1_StaleResponseDiscarded ==
  [][\A r \in requests :
       (Answered(r) /\ r.op = "owned" /\ r.live /\ r.seq < applied.owned)
         => summaries' = summaries]_vars

NoItemWithId(list, id) == \A i \in 1..Len(list) : list[i].id # id

\* new is old without the items whose id is id: the items of old with another
\* id appear in new, unchanged and in the same order, and nothing else does.
OthersKeptInOrder(old, new, id) ==
  \E f \in [1..Len(new) -> 1..Len(old)] :
    /\ \A i \in 1..Len(new) : new[i] = old[f[i]]
    /\ \A i, j \in 1..Len(new) : i < j => f[i] < f[j]
    /\ {f[i] : i \in 1..Len(new)} = {k \in 1..Len(old) : old[k].id # id}

\* C2: when the delete of id succeeds, afterwards no item of the owned list
\* has that id and every other item is still there, unchanged, in its
\* original relative order.
C2_DeleteRemovesExactlyId ==
  [][\A r \in requests :
       (Answered(r) /\ r.op = "delete" /\ r.live /\ lastEvent'.out = "ok")
         => /\ NoItemWithId(summaries', r.arg)
            /\ OthersKeptInOrder(summaries, summaries', r.arg)]_vars

C2_Witness ==
  /\ lastEvent = LEvent("delete", "ok")
  /\ summaryToDelete = 2
  /\ summaries = <<S1, S3>>

\* C3: whenever isAuthenticated is true, a token is persisted, the user is
\* present, and a verification that restored the session saw an expiry in
\* the future.
C3_AuthenticatedHasTokenAndUser ==
  isAuthenticated =>
    /\ lsToken.kind # "missing"
    /\ userData.kind = "obj"
    /\ (sessEvent.op = "verify" => sessEvent.tok.exp * MsPerSec > sessEvent.at)

\* The cases in which startup verification has to fail.
MustFailVerification(tok, usr, at) ==
  \/ tok.kind = "missing"
  \/ usr.json = "missing"
  \/ tok.kind = "junk"
  \/ tok.kind = "jwt" /\ tok.exp * MsPerSec <= at

\* C4: startup verification with no token, no cached profile, an undecodable
\* token, or an expiry at or before the current time ends logged out with
\* both persisted fields cleared.
C4_VerificationFailureLogsOut ==
  (sessEvent.op = "verify" /\ MustFailVerification(sessEvent.tok, sessEvent.usr, sessEvent.at))
    => /\ ~isAuthenticated
       /\ userData = NullUser
       /\ lsToken = NoToken
       /\ lsUser = NoItem

\* C5: startup verification over what a successful login persisted, with the
\* token not expired, restores isAuthenticated and a user with the id that
\* login returned, and issues no call to the credential API.
C5_SessionRoundTrip ==
  [][(/\ pcVerify = "init" /\ pcVerify' # "init"
      /\ loginRecord.done /\ loginRecord.user.kind = "obj"
      /\ lsToken.kind = "jwt" /\ lsToken.exp * MsPerSec > nowMs)
       => /\ isAuthenticated'
          /\ userData'.kind = "obj"
          /\ userData'.id = loginRecord.user.id
          /\ authReq' = authReq]_vars

C5_Witness ==
  /\ sessEvent.op = "verify" /\ sessEvent.out = "restored"
  /\ loginRecord.done /\ loginRecord.user = UserObj(2)
  /\ isAuthenticated /\ userData = UserObj(2)

\* C6: after a gateway call failed with an auth failure the session is
\* logged out: not authenticated, token and profile no longer persisted.
C6_UnauthorizedLogsOut ==
  lastEvent.out = "unauthorized"
    => /\ ~isAuthenticated
       /\ lsToken = NoToken
       /\ lsUser = NoItem

\* C7: the response to a call of a disposed SummariesList changes none of
\* items, selected, pendingShare, isLoading, lastError.
C7_DisposedAppliesNothing ==
  [][\A r \in requests :
       (Answered(r) /\ r.op # "dash" /\ ~r.live)
         => UNCHANGED <<summaries, sharedSummaries, selectedSummary, sharingSummary,
                        loading, error>>]_vars

\* C8: a list response whose status is not OK or whose result is not a list
\* sets the error and leaves both lists as they were.
C8_MalformedResponseKeepsList ==
  [][\A r \in requests :
       (/\ Answered(r) /\ r.op \in {"owned", "shared"} /\ r.live
        /\ lastEvent'.out \in {"badStatus", "notArray"})
         => /\ error' # NoError
            /\ summaries' = summaries
            /\ sharedSummaries' = sharedSummaries]_vars

C8_Witness ==
  /\ lastEvent = LEvent("owned", "badStatus")
  /\ error = "loadFailed"
  /\ summaries = <<S1, S2, S3>>

\* C9: when the delete call fails, the error is set and the owned list is
\* unchanged.
C9_FailedDeleteKeepsList ==
  [][\A r \in requests :
       (Answered(r) /\ r.op = "delete" /\ r.live /\ lastEvent'.out # "ok")
         => /\ error' = "deleteFailed"
            /\ summaries' = summaries]_vars

C9_Witness ==
  /\ lastEvent = LEvent("delete", "reject")
  /\ error = "deleteFailed"
  /\ summaryToDelete = 2
  /\ summaries = <<S1, S2, S3>>

\* C10: cancelling the delete confirmation clears the remembered id, issues
\* no gateway call and leaves items, selected, pendingShare and lastError
\* unchanged.
C10_CancelClearsPendingDelete ==
  [][(deleteDialogOpen /\ lastEvent'.op = "cancelDelete")
       => /\ summaryToDelete' = 0
          /\ requests' = requests
          /\ UNCHANGED <<summaries, selectedSummary, sharingSummary, error>>]_vars

\* C11: a login that fails (rejected call, network failure, response without
\* a token) reports a non-empty message and changes none of isAuthenticated,
\* user, persisted token, persisted profile; an anonymous session stays
\* anonymous with no user.
C11_FailedLoginKeepsAnonymous ==
  [][(authReq = "login" /\ sessEvent'.op = "login" /\ sessEvent'.out \in LoginFailures)
       => /\ authError' # NoError
          /\ UNCHANGED <<isAuthenticated, userData, lsToken, lsUser>>
          /\ (~isAuthenticated => (~isAuthenticated' /\ userData' = NullUser))]_vars

C11_Witness ==
  /\ sessEvent.op = "login" /\ sessEvent.out = "reject"
  /\ authReq = "none"
  /\ authError = "Authentication failed"
  /\ ~isAuthenticated /\ userData = NullUser
  /\ lsToken = NoToken /\ lsUser = NoItem

\* C12 as stated: the response of register changes none of isAuthenticated,
\* user, persisted token and profile, and on failure lastError is unchanged
\* too.
C12_RegisterChangesNoSessionField ==
  [][(authReq = "register" /\ sessEvent'.op = "register")
       => /\ UNCHANGED <<isAuthenticated, userData, lsToken, lsUser>>
          /\ (sessEvent'.out # "success" => authError' = authError)]_vars

\* C12 as amended: the response of register changes none of isAuthenticated,
\* user, persisted token and profile; on success lastError is unchanged, on
\* failure lastError is set to the message that is returned.
C12_RegisterNeverAuthenticates ==
  [][(authReq = "register" /\ sessEvent'.op = "register")
       => /\ UNCHANGED <<isAuthenticated, userData, lsToken, lsUser>>
          /\ (sessEvent'.out = "success" => authError' = authError)
          /\ (sessEvent'.out = "reject" => authError' = "Registration failed")
          /\ (sessEvent'.out = "rejectMsg" => authError' = "server message")]_vars

C12_Witness ==
  /\ sessEvent.op = "register" /\ sessEvent.out = "reject"
  /\ authReq = "none"
  /\ authError = "Registration failed"
  /\ ~isAuthenticated /\ lsToken = NoToken

\* C13: right after logout() the persisted token and profile are absent,
\* isAuthenticated is false, the user is absent and lastError is absent.
C13_LogoutClearsSession ==
  sessEvent.op = "logout"
    => /\ lsToken = NoToken
       /\ lsUser = NoItem
       /\ ~isAuthenticated
       /\ userData = NullUser
       /\ authError = NoError

C13_Witness ==
  /\ sessEvent.op = "logout"
  /\ sessEvent.tok.kind = "jwt" /\ sessEvent.usr.json = "object"
  /\ lsToken = NoToken /\ lsUser = NoItem
  /\ ~isAuthenticated

\* C14: a startup verification that has not run yet leads to a state in
\* which it has ended and the session's loading flag is false.
C14_VerifyEndsNotLoading ==
  (pcVerify = "init") ~> (pcVerify = "done" /\ ~authLoading)

C14_Witness ==
  /\ pcVerify = "done"
  /\ sessEvent.op = "prefetch" /\ sessEvent.out = "reject"
  /\ isAuthenticated
  /\ ~authLoading

\* C15: when the prefetch of a successful verification fails (rejected call
\* or non-OK response), isAuthenticated, user and the persisted fields are
\* left alone and the session's summaries list is empty.
C15_PrefetchFailureKeepsSession ==
  [][(/\ prefetchInFlight > 0 /\ prefetchInFlight' < prefetchInFlight
      /\ sessEvent'.op = "prefetch" /\ sessEvent'.out \in {"reject", "notOK"})
       => /\ UNCHANGED <<isAuthenticated, userData, lsToken, lsUser>>
          /\ authSummaries' = <<>>]_vars

\* C16: while the list is mounted, its loading flag is true exactly when a
\* fetch of the owned or of the shared list is in flight.
C16_LoadingWhileFetchInFlight ==
  ListMountedIn(dashLoading)
    => (loading <=> \E r \in requests : r.op \in {"owned", "shared"} /\ r.live)

\* C17: no share call is issued while the recipient is empty; the step that
\* reports the missing recipient issues no call and leaves the share dialog
\* and its summary as they were.
C17_EmptyRecipientNotSent ==
  [][/\ \A r \in requests' :
          (r.op = "share" /\ \A q \in requests : q.seq # r.seq) => recipient # <<>>
     /\ (lastEvent'.op = "alertNoRecipient"
           => /\ recipient = <<>>
              /\ UNCHANGED <<requests, sharingSummary, sharing>>)]_vars

C17_Witness ==
  /\ lastEvent.op = "alertNoRecipient"
  /\ sharingSummary.id # 0
  /\ recipient = <<>>
  /\ ~sharing

\* C18: when the share call fails, the dialog's summary and recipient are
\* kept, the Share button is enabled again and the detail text of the
\* server's answer is the dialog's error message; when it succeeds, the
\* dialog's summary is cleared.
C18_FailedShareKeepsDialog ==
  [][\A r \in requests :
       (Answered(r) /\ r.op = "share" /\ r.live)
         => /\ ~sharing'
            /\ (lastEvent'.out = "ok" => sharingSummary' = NoSummary)
            /\ (lastEvent'.out # "ok" => UNCHANGED <<sharingSummary, recipient>>)
            /\ (lastEvent'.out = "rejectDetail" => errorMessage' = <<"d">>)]_vars

C18_Witness ==
  /\ lastEvent = LEvent("share", "rejectDetail")
  /\ sharingSummary.id # 0
  /\ recipient = <<"b">>
  /\ errorMessage = <<"d">>
  /\ ~sharing

AllBlank(t) == \A i \in 1..Len(t) : t[i] = " "

\* C19: a regenerate call is issued only with feedback that has a character
\* other than a blank, and only when no regenerate call of the detail view
\* that is shown is in flight.
C19_RegenerateNeedsFeedback ==
  [][\A r \in requests' :
       (r.op = "regen" /\ \A q \in requests : q.seq # r.seq)
         => /\ ~AllBlank(feedback)
            /\ ~\E q \in requests : q.op = "regen" /\ q.dlive]_vars

C19_Witness ==
  /\ \E r \in requests : r.op = "regen" /\ r.dlive /\ r.arg = selectedSummary.id
  /\ regenerating
  /\ feedback = <<"f">>

C21_RefetchReplacesOrKeepsSelected ==
  [][\A r \in requests :
       /\ (Answered(r) /\ r.op = "regen" /\ lastEvent' = LEvent("regen", "ok"))
            => \E q \in requests' : q.op = "refetch" /\ q.seq = r.seq /\ q.arg = r.arg
       /\ (Answered(r) /\ r.op = "refetch" /\ lastEvent'.op = "refetch")
            => IF lastEvent'.out = "ok"
                 THEN selectedSummary' = Regenerated(r.arg)
                 ELSE /\ UNCHANGED <<selectedSummary, error>>
                      /\ DetailShown => DetailShown']_vars

\* C22: choosing the view that is already active changes neither the view,
\* the search query, the tab nor the lists, and issues no fetch.
C22_ToggleSameIsNoOp ==
  [][lastEvent'.op = "toggleSame"
       => UNCHANGED <<currentView, searchQuery, activeTab, summaries, sharedSummaries,
                      loading, requests, nextSeq>>]_vars

C22_Witness ==
  /\ lastEvent = LEvent("toggleSame", "my-summaries")
  /\ currentView = "my-summaries"
  /\ searchQuery = <<"A">>
  /\ activeTab = "research"
  /\ GridShown

\* C23: choosing the other view makes it the active view, empties the search
\* query, issues the fetch of that view's list and leaves the tab as it was.
C23_ToggleSwitchesAndFetches ==
  [][lastEvent'.op = "toggle"
       => /\ lastEvent'.out # currentView
          /\ currentView' = lastEvent'.out
          /\ searchQuery' = <<>>
          /\ activeTab' = activeTab
          /\ \E q \in requests' :
               /\ q.seq = nextSeq /\ q.live
               /\ q.op = (IF lastEvent'.out = "shared-summaries" THEN "shared" ELSE "owned")
          /\ \A q \in requests' : q.seq = nextSeq \/ q \in requests]_vars

C23_Witness ==
  /\ lastEvent = LEvent("toggle", "shared-summaries")
  /\ currentView = "shared-summaries"
  /\ activeTab = "research"
  /\ searchQuery = <<>>
  /\ \E q \in requests : q.op = "shared" /\ q.live

SameLetter(a, b) ==
  \/ a = b
  \/ {a, b} \in {{"A", "a"}, {"B", "b"}, {"C", "c"}}

\* q occurs in t at some offset, letter case ignored
ContainsIgnoringCase(t, q) ==
  \E k \in 0..Len(t) :
    /\ k + Len(q) <= Len(t)
    /\ \A j \in 1..Len(q) : SameLetter(t[k + j], q[j])

\* the category a type value stands for
CategoryOf(ty) ==
  CASE ty \in {"code", "Code"} -> "code"
    [] ty \in {"research", "Research"} -> "research"
    [] ty \in {"documentation", "Documentation"} -> "documentation"

Displayed(s, cat, q) ==
  /\ cat = "all" \/ CategoryOf(s.type) = cat
  /\ ContainsIgnoringCase(s.title, q) \/ ContainsIgnoringCase(s.outputData, q)

\* new is the items of old that are to be displayed, in the order of old
ExactlyDisplayedInOrder(old, new, cat, q) ==
  \E f \in [1..Len(new) -> 1..Len(old)] :
    /\ \A i \in 1..Len(new) : new[i] = old[f[i]]
    /\ \A i, j \in 1..Len(new) : i < j => f[i] < f[j]
    /\ {f[i] : i \in 1..Len(new)} = {k \in 1..Len(old) : Displayed(old[k], cat, q)}

\* C24: the visible list is exactly the items of the active list, in their
\* original order, whose type is the tab's category (any type for the tab
\* all) and whose title or outputData contains the query, letter case
\* ignored; the empty query matches every item.
C24_VisibleIsExactlyMatching ==
  ExactlyDisplayedInOrder(IF currentView = "my-summaries" THEN summaries ELSE sharedSummaries,
                          VisibleList, activeTab, searchQuery)

C24_Witness ==
  /\ GridShown
  /\ currentView = "my-summaries"
  /\ summaries = <<S1, S2, S3>>
  /\ activeTab = "research"
  /\ searchQuery = <<"A">>
  /\ VisibleList = <<S2>>

\* C25: setting the tab or the query again to the value it has leaves the
\* visible list as it is, and filtering the visible list again by the tab
\* and the query gives the visible list.
C25_FilterIdempotent ==
  [][/\ lastEvent'.op = "filterSame" => VisibleList' = VisibleList
     /\ FilteredList(VisibleList', activeTab', searchQuery') = VisibleList']_vars

C25_Witness ==
  /\ lastEvent = LEvent("filterSame", "done")
  /\ GridShown
  /\ currentView = "my-summaries"
  /\ activeTab = "research"
  /\ searchQuery = <<"A">>
  /\ VisibleList = <<S2>>
  /\ Len(summaries) = 3

\* C26: going back to the list clears selected and the pending share and
\* issues the refresh; selected stays absent until the grid is on screen
\* again, and the list response that ends the reload shows the grid with the
\* items it carried.
C26_BackReloadsGrid ==
  [][/\ lastEvent'.op = "back"
          => /\ selectedSummary' = NoSummary
             /\ sharingSummary' = NoSummary
             /\ dashLoading'
             /\ \E q \in requests' : q.op = "dash" /\ q.seq = nextSeq
     /\ (selectedSummary = NoSummary /\ ~GridShown) => selectedSummary' = NoSummary
     /\ \A r \in requests :
          (Answered(r) /\ r.op = "owned" /\ r.live /\ lastEvent' = LEvent("owned", "ok")
             /\ selectedSummary = NoSummary /\ error = NoError /\ ~dashLoading)
            => GridShown']_vars

\* C27: the reload that going back to the list triggers leaves the active
\* view as it was.
C27_ReloadKeepsView ==
  [][lastEvent'.op = "back" => currentView' = currentView]_vars

\* C30: the response of the re-fetch of a summary changes selected only when
\* selected is still the summary with that id.
C30_LateRefetchKeepsSelected ==
  [][\A r \in requests :
       (Answered(r) /\ r.op = "refetch" /\ lastEvent'.op = "refetch"
          /\ selectedSummary.id # r.arg)
         => selectedSummary' = selectedSummary]_vars

\* C28: the dashboard is rendered only for an authenticated session that is
\* not loading, and an unauthenticated session whose loading has finished is
\* never left on the dashboard route: it is sent to the login form.
C28_DashboardOnlyWhenAuthenticated ==
  /\ DashboardRendered => (isAuthenticated /\ ~authLoading)
  /\ (~isAuthenticated /\ ~authLoading) => (route = "/login" /\ ~DashboardRendered)

C28_Witness ==
  /\ sessEvent.op = "register" /\ sessEvent.out = "success"
  /\ ~isAuthenticated /\ ~authLoading
  /\ route = "/login"

\* C29: a create call that succeeds is followed by onCreate with the created
\* summary, so that the list is fetched again for it; a create call that
\* fails is followed by no onCreate: the dialog stays as it was and no fetch
\* is issued.
C29_OnCreateOnlyAfterCreation ==
  [][\A r \in requests :
       (Answered(r) /\ r.op = "create")
         => IF lastEvent'.out = "ok"
              THEN \E q \in requests' : q.op = "newfetch" /\ q.seq >= nextSeq /\ q.arg # 0
              ELSE /\ openNewDialog' = openNewDialog
                   /\ ~\E q \in requests' : q.op = "newfetch" /\ q.seq >= nextSeq]_vars

\* C31: the response of a fetch of the owned list that was in flight when the
\* success of the delete of an id was applied does not bring that id back
\* into the owned list.
C31_DeletedIdStaysDeleted ==
  [][\A r \in requests :
       (/\ Answered(r) /\ r.op = "owned" /\ r.live
        /\ lastEvent = LEvent("delete", "ok")
        /\ summaryToDelete # 0
        /\ NoItemWithId(summaries, summaryToDelete))
         => NoItemWithId(summaries', summaryToDelete)]_vars

\* C32: after a load of the active list succeeds there is no error, so that
\* the grid and not the error is on screen; an error set by an earlier failed
\* load or failed delete does not outlive it.
C32_ErrorClearedBySuccessfulLoad ==
  [][\A r \in requests :
       (Answered(r) /\ r.op \in {"owned", "shared"} /\ r.live
          /\ lastEvent' = LEvent(r.op, "ok"))
         => error' = NoError]_vars

\* C33: whenever the share dialog opens, its error text and its recipient
\* field are empty.
C33_ShareDialogOpensClean ==
  [][(sharingSummary = NoSummary /\ sharingSummary' # NoSummary)
       => (errorMessage' = <<>> /\ recipient' = <<>>)]_vars

\* C34: once startup verification has completed, isAuthenticated is true
\* exactly when both the token and the profile are in persistent storage.
C34_AuthenticatedIffPersisted ==
  pcVerify = "done"
    => (isAuthenticated <=> (lsToken.kind # "missing" /\ lsUser.json # "missing"))

C34_Witness ==
  /\ pcVerify = "done"
  /\ sessEvent.op = "login" /\ sessEvent.out = "success"
  /\ isAuthenticated
  /\ lsToken.kind = "jwt" /\ lsUser.json = "object"

====
